---- MODULE Spec2Model ----
(***************************************************************************)
(* filebase: a model of the scan engine of main.go.                       *)
(*                                                                         *)
(* One process run is main(): newFileDB, then scanDir for every root on    *)
(* the command line, then exit.  scanDir = getFiles (the walk in the main  *)
(* goroutine, the writer goroutine behind an unbuffered channel), then     *)
(* wg.Wait, then the eviction DELETE.                                      *)
(*                                                                         *)
(* The store is the SQLite file (tables file and sample, durable) plus     *)
(* the TEMPORARY table found, which lives in the one pooled connection of  *)
(* the process.  dbFile/dbSample are what is durable (the last commit);    *)
(* file/sample/found are what the connection sees, open transaction        *)
(* included; cFound is found as of the last commit.                        *)
(*                                                                         *)
(* Spec is the scan engine under any interleaving; FairSpec adds the       *)
(* scheduling of the goroutines, for what a scan eventually does; SpecQ    *)
(* applies the report queries (getBiggest, getOldest, getNewest,           *)
(* getFastest) to stores drawn from bounded sets.                          *)
(***************************************************************************)
EXTENDS Integers, Sequences, FiniteSets, TLC

\* ---------------------------------------------------------------- bounds
\* Process runs (invocations of main) in one behaviour.
MaxRuns == 2
\* Roots on one command line.
MaxArgs == 2
\* The wall clock, in whole seconds, runs 0..MaxTime.
MaxTime == 1
\* Changes made to the file system by its other users.
MaxDiskOps == 1
\* Entries for which filepath.Walk reports an error.
MaxWalkErrors == 1
\* The batch size of the writer; 1024 in the program (main.go:21), scaled
\* down so that a full batch and a partial one both fit a three-file tree.
filesPerBatch == 2

\* ------------------------------------------------------- the file system
\* Regular files; the trees /A and /B are disjoint.
Paths == {"/A/a1", "/A/a2", "/A/a3", "/B/b1"}
\* The permission bits of a regular file: rw-r--r--, and rw------- once its
\* owner has closed it to the others.
ModeShared == 420
ModePrivate == 384
Absent == [size |-> 0, mtime |-> 0, mode |-> 0, present |-> FALSE]
Stat(s, m) == [size |-> s, mtime |-> m, mode |-> ModeShared, present |-> TRUE]

\* What the other users of the file system write into a file: it grows
\* (and is newer than every file of InitDisk) or is truncated and closed to
\* the others.
Writes == {Stat(7, 9), [Stat(0, 8) EXCEPT !.mode = ModePrivate]}
\* The files they write to, the files they remove, and the entries the
\* walk can fail on.
Writable == {"/A/a1", "/B/b1"}
Removable == {"/A/a3", "/B/b1"}
Unreadable == {"/A/a2", "/B/b1"}

InitDisk ==
    [p \in Paths |->
        CASE p = "/A/a1" -> Stat(1, 3)
          [] p = "/A/a2" -> Stat(3, 1)
          [] p = "/A/a3" -> Stat(2, 2)
          [] OTHER -> Stat(4, 4)]

\* Command-line arguments: a relative path, a symbolic link, and a path
\* that does not exist.
Dirs == {"A", "lnB", "X"}
NoRoot == "ERR"

\* filepath.Abs followed by filepath.EvalSymlinks.
Canon(dir) ==
    CASE dir = "A" -> "/A"
      [] dir = "lnB" -> "/B"
      [] OTHER -> NoRoot

\* filepath.Walk visits a tree in lexical order.
WalkOrder(root) ==
    CASE root = "/A" -> <<"/A/a1", "/A/a2", "/A/a3">>
      [] root = "/B" -> <<"/B/b1">>
      [] OTHER -> <<>>

Under(root) == {WalkOrder(root)[k] : k \in 1..Len(WalkOrder(root))}

NoJob == [p |-> "", mode |-> 0, size |-> 0, mtime |-> 0, now |-> 0, some |-> FALSE]
Job(p, st, t) ==
    [p |-> p, mode |-> st.mode, size |-> st.size, mtime |-> st.mtime,
     now |-> t, some |-> TRUE]

VARIABLES
    now, disk, diskOps, walkErrors,
    dbFile, dbSample, file, sample, found, cFound, txOpen,
    runs, args, argi, pcMain, todo, job, chan, wg, pcWriter, cur, i, dying,
    scanRoot, preFile, preSample, scanOps, scanWerr, skipped, prev,
    handed, commits, finalDone, evicted, failure,
    listSize, report, result

env == <<now, disk, diskOps, walkErrors>>
store == <<dbFile, dbSample, file, sample, found, cFound, txOpen>>
proc == <<runs, args, argi, pcMain, todo, job, chan, wg, pcWriter, cur, i, dying>>
\* History of the scan under way (or the last one), kept for the properties;
\* skipped: the entries its walk reported an error for.
scanHist == <<scanRoot, preFile, preSample, scanOps, scanWerr, skipped, prev>>
hist == <<scanHist, handed, commits, finalDone, evicted, failure>>
\* The report of the run: -list, the query made, and what it returned.
query == <<listSize, report, result>>
vars == <<env, store, proc, hist, query>>

\* --------------------------------------------------------------- history
NoScan == [root |-> "", tmax |-> 0, ops |-> 0, ok |-> FALSE]

\* The scan that has just ended, when it ran to its end (evicted, no error
\* of the store, no entry skipped by the walk): its root, the latest time
\* it stamped, and how often the file system had changed when it began.
LastScan ==
    IF scanRoot = "" THEN prev
    ELSE IF /\ evicted /\ failure = "none" /\ scanRoot # NoRoot
            /\ walkErrors = scanWerr /\ handed # <<>>
    THEN [root |-> scanRoot, tmax |-> handed[Len(handed)].now,
          ops |-> scanOps, ok |-> TRUE]
    ELSE NoScan

\* ------------------------------------------------------------- the store
Max(S) == CHOOSE x \in S : \A y \in S : y <= x

\* SELECT fileid FROM file WHERE path = ?   (0: sql.ErrNoRows)
getFileID(fl, path) ==
    IF \E f \in fl : f.path = path
    THEN (CHOOSE f \in fl : f.path = path).fileid
    ELSE 0

\* The rowid SQLite gives a row inserted into file (integer primary key
\* without AUTOINCREMENT: one more than the largest rowid in the table).
NextRowid(fl) == IF fl = {} THEN 1 ELSE Max({f.fileid : f \in fl}) + 1

\* INSERT INTO file (path) VALUES (?)
insertFile(fl, path) == fl \cup {[fileid |-> NextRowid(fl), path |-> path]}

SampleRow(id, j) ==
    [fileid |-> id, sampletime |-> j.now, mode |-> j.mode,
     size |-> j.size, mtime |-> j.mtime]

\* primary key (fileid, sampletime) of sample
SampleKeyTaken(sm, id, t) == \E s \in sm : s.fileid = id /\ s.sampletime = t

\* INSERT INTO found VALUES (?) on found(fileid integer PRIMARY KEY):
\* a second insert of the same fileid is a constraint violation.
markFoundFails(fd, id) == id \in fd

\* Statements of insertOneSample, in order; io names the statement that
\* the store fails on for a reason of its own (I/O error, disk full, busy)
\* or is "none".
Stmts == {"getFileID", "insertFile", "insertSample", "markFound"}

\* Mutant: INSERT OR REPLACE INTO sample: a row with the key of an existing
\* one takes its place.
insertOneSampleOrReplace(fl, sm, fd, j, io) ==
    LET known == getFileID(fl, j.p) # 0
        fl1 == IF known THEN fl ELSE insertFile(fl, j.p)
        id == getFileID(fl1, j.p)
        sm1 == {s \in sm : ~(s.fileid = id /\ s.sampletime = j.now)}
                   \cup {SampleRow(id, j)}
    IN  IF io = "getFileID" \/ (io = "insertFile" /\ ~known)
        THEN [file |-> fl, sample |-> sm, found |-> fd, err |-> "io"]
        ELSE IF io = "insertSample"
        THEN [file |-> fl1, sample |-> sm, found |-> fd, err |-> "io"]
        ELSE IF io = "markFound"
        THEN [file |-> fl1, sample |-> sm1, found |-> fd, err |-> "io"]
        ELSE IF markFoundFails(fd, id)
        THEN [file |-> fl1, sample |-> sm1, found |-> fd, err |-> "dupFound"]
        ELSE [file |-> fl1, sample |-> sm1, found |-> fd \cup {id}, err |-> "ok"]


\* Mutant: no lookup of the path, a file row is inserted for every record.
insertOneSampleNoLookup(fl, sm, fd, j, io) ==
    LET fl1 == insertFile(fl, j.p)
        id == NextRowid(fl)
        sm1 == sm \cup {SampleRow(id, j)}
    IN  IF io \in {"getFileID", "insertFile"}
        THEN [file |-> fl, sample |-> sm, found |-> fd, err |-> "io"]
        ELSE IF io = "insertSample"
        THEN [file |-> fl1, sample |-> sm, found |-> fd, err |-> "io"]
        ELSE IF io = "markFound"
        THEN [file |-> fl1, sample |-> sm1, found |-> fd, err |-> "io"]
        ELSE [file |-> fl1, sample |-> sm1, found |-> fd \cup {id}, err |-> "ok"]


\* insertOneSample(tx, path, info, now) on the connection's view
\* (fl, sm, fd): the view after it, and err: "ok", or why fatal() panicked.
\* A failed statement leaves the effects of the earlier ones in the open
\* transaction.
insertOneSample(fl, sm, fd, j, io) ==
    LET known == getFileID(fl, j.p) # 0
        fl1 == IF known THEN fl ELSE insertFile(fl, j.p)
        id == getFileID(fl1, j.p)
        sm1 == sm \cup {SampleRow(id, j)}
    IN  IF io = "getFileID" \/ (io = "insertFile" /\ ~known)
        THEN [file |-> fl, sample |-> sm, found |-> fd, err |-> "io"]
        ELSE IF io = "insertSample"
        THEN [file |-> fl1, sample |-> sm, found |-> fd, err |-> "io"]
        ELSE IF SampleKeyTaken(sm, id, j.now)
        THEN [file |-> fl1, sample |-> sm, found |-> fd, err |-> "dupSample"]
        ELSE IF io = "markFound"
        THEN [file |-> fl1, sample |-> sm1, found |-> fd, err |-> "io"]
        ELSE IF markFoundFails(fd, id)
        THEN [file |-> fl1, sample |-> sm1, found |-> fd, err |-> "dupFound"]
        ELSE [file |-> fl1, sample |-> sm1, found |-> fd \cup {id}, err |-> "ok"]

\* DELETE FROM file WHERE fileid NOT IN (SELECT fileid FROM found)
evictFile(fl, fd) == {f \in fl : f.fileid \in fd}

\* foreign key (fileid) references file(fileid) ... ON DELETE CASCADE
cascade(sm, fl) == {s \in sm : \E f \in fl : f.fileid = s.fileid}

\* ------------------------------------------------------------------ init
Init ==
    /\ now = 0
    /\ disk = InitDisk
    /\ diskOps = 0 /\ walkErrors = 0
    /\ dbFile = {} /\ dbSample = {} /\ file = {} /\ sample = {}
    /\ found = {} /\ cFound = {} /\ txOpen = FALSE
    /\ runs = 0 /\ args = <<>> /\ argi = 0 /\ pcMain = "none"
    /\ todo = <<>> /\ job = NoJob /\ chan = "none" /\ wg = 0
    /\ pcWriter = "none" /\ cur = NoJob /\ i = 0 /\ dying = FALSE
    /\ scanRoot = "" /\ preFile = {} /\ preSample = {} /\ handed = <<>>
    /\ scanOps = 0 /\ scanWerr = 0 /\ skipped = {} /\ prev = NoScan
    /\ commits = 0 /\ finalDone = FALSE /\ evicted = FALSE /\ failure = "none"
    /\ listSize = 0 /\ report = "" /\ result = <<>>

\* --------------------------------------------------------------- process
Alive == pcMain \in {"loop", "walk", "send", "wait"}

\* The process is gone: goroutines, channel and connection with it.  What
\* the open transaction held is rolled back by SQLite's journal, and the
\* temporary table found dies with the connection.  (i keeps the count the
\* writer had reached, until the next writer starts from 0.)
ProcessGone(pc) ==
    /\ pcMain' = pc
    /\ args' = <<>> /\ argi' = 0 /\ todo' = <<>> /\ job' = NoJob
    /\ chan' = "none" /\ wg' = 0 /\ pcWriter' = "none" /\ cur' = NoJob
    /\ UNCHANGED i /\ dying' = FALSE
    /\ file' = dbFile /\ sample' = dbSample
    /\ found' = {} /\ cFound' = {} /\ txOpen' = FALSE

ArgLists == UNION {[1..n -> Dirs] : n \in 1..MaxArgs}

\* main: newFileDB (a fresh connection, an empty found), then the loop
\* over flag.Args().
StartRun(argv) ==
    /\ pcMain \in {"none", "exited", "dead"}
    /\ runs < MaxRuns
    /\ runs' = runs + 1
    /\ args' = argv /\ argi' = 1 /\ pcMain' = "loop"
    /\ found' = {} /\ cFound' = {}
    /\ prev' = LastScan
    /\ scanRoot' = "" /\ preFile' = dbFile /\ preSample' = dbSample
    /\ scanOps' = diskOps /\ scanWerr' = walkErrors /\ skipped' = {}
    /\ handed' = <<>> /\ commits' = 0 /\ finalDone' = FALSE
    /\ evicted' = FALSE /\ failure' = "none"
    /\ UNCHANGED <<env, dbFile, dbSample, file, sample, txOpen>>
    /\ UNCHANGED <<todo, job, chan, wg, pcWriter, cur, i, dying>>
    /\ UNCHANGED query

\* Mutant: a root that does not resolve ends the program (log.Fatal).
ScanStartFatal ==
    /\ pcMain = "loop"
    /\ argi <= Len(args)
    /\ LET root == Canon(args[argi])
       IN  /\ scanRoot' = root
           /\ IF root = NoRoot
              THEN /\ ProcessGone("dead")
                   /\ UNCHANGED <<dbFile, dbSample>>
              ELSE /\ pcMain' = "walk"
                   /\ chan' = "open" /\ wg' = wg + 1
                   /\ pcWriter' = "begin" /\ i' = 0
                   /\ todo' = WalkOrder(root)
                   /\ UNCHANGED <<store, args, argi, job, cur, dying>>
    /\ prev' = LastScan
    /\ preFile' = dbFile /\ preSample' = dbSample
    /\ scanOps' = diskOps /\ scanWerr' = walkErrors /\ skipped' = {}
    /\ handed' = <<>> /\ commits' = 0 /\ finalDone' = FALSE /\ evicted' = FALSE
    /\ UNCHANGED <<env, runs, failure>>
    /\ UNCHANGED query

\* scanDir -> getFiles, up to the call of filepath.Walk: canonicalize; on
\* an error log it and return (scanDir goes on to wg.Wait); otherwise make
\* the channel, wg.Add(1) and start the writer goroutine.
ScanStart ==
    /\ pcMain = "loop"
    /\ argi <= Len(args)
    /\ LET root == Canon(args[argi])
       IN  /\ scanRoot' = root
           /\ IF root = NoRoot
              THEN /\ pcMain' = "wait"
                   /\ chan' = "none" /\ pcWriter' = "none"
                   /\ UNCHANGED <<todo, wg, i>>
              ELSE /\ pcMain' = "walk"
                   /\ chan' = "open" /\ wg' = wg + 1
                   /\ pcWriter' = "begin" /\ i' = 0
                   /\ todo' = WalkOrder(root)
    /\ prev' = LastScan
    /\ preFile' = dbFile /\ preSample' = dbSample
    /\ scanOps' = diskOps /\ scanWerr' = walkErrors /\ skipped' = {}
    /\ handed' = <<>> /\ commits' = 0 /\ finalDone' = FALSE /\ evicted' = FALSE
    /\ UNCHANGED <<env, store, runs, args, argi, job, cur, dying, failure>>
    /\ UNCHANGED query

\* The walk callback on a regular file that exists: it offers the record
\* on the channel, stamped with time.Now().
WalkVisit ==
    /\ pcMain = "walk" /\ todo # <<>>
    /\ disk[Head(todo)].present
    /\ job' = Job(Head(todo), disk[Head(todo)], now)
    /\ todo' = Tail(todo)
    /\ pcMain' = "send"
    /\ UNCHANGED <<env, store, hist>>
    /\ UNCHANGED <<runs, args, argi, chan, wg, pcWriter, cur, i, dying>>
    /\ UNCHANGED query

\* A path that is not on disk is not enumerated at all.
WalkSkipAbsent ==
    /\ pcMain = "walk" /\ todo # <<>>
    /\ ~disk[Head(todo)].present
    /\ todo' = Tail(todo)
    /\ UNCHANGED <<env, store, hist>>
    /\ UNCHANGED <<runs, args, argi, pcMain, job, chan, wg, pcWriter, cur, i, dying>>
    /\ UNCHANGED query

\* Mutant: the callback returns the error, which ends filepath.Walk.
WalkErrorAborts ==
    /\ pcMain = "walk" /\ todo # <<>>
    /\ disk[Head(todo)].present
    /\ Head(todo) \in Unreadable
    /\ walkErrors < MaxWalkErrors
    /\ walkErrors' = walkErrors + 1
    /\ skipped' = skipped \cup {Head(todo)}
    /\ todo' = <<>>
    /\ UNCHANGED <<now, disk, diskOps, store>>
    /\ UNCHANGED <<scanRoot, preFile, preSample, scanOps, scanWerr, prev>>
    /\ UNCHANGED <<handed, commits, finalDone, evicted, failure>>
    /\ UNCHANGED <<runs, args, argi, pcMain, job, chan, wg, pcWriter, cur, i, dying>>
    /\ UNCHANGED query

\* The walk callback called with err != nil: log.Print(err); return nil.
WalkError ==
    /\ pcMain = "walk" /\ todo # <<>>
    /\ disk[Head(todo)].present
    /\ Head(todo) \in Unreadable
    /\ walkErrors < MaxWalkErrors
    /\ walkErrors' = walkErrors + 1
    /\ skipped' = skipped \cup {Head(todo)}
    /\ todo' = Tail(todo)
    /\ UNCHANGED <<now, disk, diskOps, store>>
    /\ UNCHANGED <<scanRoot, preFile, preSample, scanOps, scanWerr, prev>>
    /\ UNCHANGED <<handed, commits, finalDone, evicted, failure>>
    /\ UNCHANGED <<runs, args, argi, pcMain, job, chan, wg, pcWriter, cur, i, dying>>
    /\ UNCHANGED query

\* The unbuffered channel: the send of the walker and the receive of the
\* writer's range loop happen together.
Handoff ==
    /\ pcMain = "send" /\ pcWriter = "recv"
    /\ cur' = job /\ job' = NoJob
    /\ pcMain' = "walk" /\ pcWriter' = "insert"
    /\ handed' = Append(handed, job)
    /\ UNCHANGED <<env, store, runs, args, argi, todo, chan, wg, i, dying>>
    /\ UNCHANGED <<scanHist, commits, finalDone, evicted, failure>>
    /\ UNCHANGED query

\* Mutant: getFiles returns without closing the channel.
WalkEndNoClose ==
    /\ pcMain = "walk" /\ todo = <<>>
    /\ pcMain' = "wait"
    /\ UNCHANGED <<env, store, hist>>
    /\ UNCHANGED <<runs, args, argi, todo, job, chan, wg, pcWriter, cur, i, dying>>
    /\ UNCHANGED query


\* filepath.Walk returns, getFiles returns: the deferred close(infos).
WalkEnd ==
    /\ pcMain = "walk" /\ todo = <<>>
    /\ chan' = "closed"
    /\ pcMain' = "wait"
    /\ UNCHANGED <<env, store, hist>>
    /\ UNCHANGED <<runs, args, argi, todo, job, wg, pcWriter, cur, i, dying>>
    /\ UNCHANGED query

\* ---------------------------------------------------------------- writer
\* fatal(err) with err != nil in the writer goroutine: panic(err).  A
\* panic runs the goroutine's deferred calls, here wg.Done(), and then
\* ends the program; the main goroutine runs on until it has (dying): it
\* may pass wg.Wait(), execute the DELETE, and go on to the next root.
WriterPanics(cause) ==
    /\ pcWriter' = "panicked"
    /\ wg' = wg - 1
    /\ dying' = TRUE
    /\ failure' = cause

\* Mutant: the batch test counts one record too many.
BatchFullOffByOne(n) == n % (filesPerBatch + 1) = 0

\* i%filesPerBatch == 0
BatchFull(n) == n % filesPerBatch = 0

\* tx, err := fdb.db.Begin(); fatal(err)       (the first transaction)
WriterBegin(ok) ==
    /\ pcWriter = "begin"
    /\ IF ok
       THEN /\ txOpen' = TRUE /\ pcWriter' = "recv"
            /\ UNCHANGED <<wg, dying, failure>>
       ELSE /\ WriterPanics("io")
            /\ UNCHANGED txOpen
    /\ UNCHANGED <<env, dbFile, dbSample, file, sample, found, cFound>>
    /\ UNCHANGED <<runs, args, argi, pcMain, todo, job, chan, cur, i>>
    /\ UNCHANGED <<scanHist, handed, commits, finalDone, evicted>>
    /\ UNCHANGED query

\* The body of the range loop up to the batch test: insertOneSample, i++.
WriterInsert(io) ==
    /\ pcWriter = "insert"
    /\ LET r == insertOneSample(file, sample, found, cur, io)
       IN  /\ file' = r.file /\ sample' = r.sample /\ found' = r.found
           /\ IF r.err = "ok"
              THEN /\ i' = i + 1
                   /\ pcWriter' = IF BatchFull(i + 1) THEN "commit" ELSE "recv"
                   /\ UNCHANGED <<wg, dying, failure>>
              ELSE /\ WriterPanics(r.err)
                   /\ UNCHANGED i
    /\ cur' = NoJob
    /\ UNCHANGED <<env, dbFile, dbSample, cFound, txOpen>>
    /\ UNCHANGED <<runs, args, argi, pcMain, todo, job, chan>>
    /\ UNCHANGED <<scanHist, handed, commits, finalDone, evicted>>
    /\ UNCHANGED query

\* tx.Commit() that succeeds: the view becomes durable.
CommitOk ==
    /\ dbFile' = file /\ dbSample' = sample /\ cFound' = found
    /\ UNCHANGED <<file, sample, found>>

\* tx.Commit() that fails: the driver rolls the transaction back and the
\* connection goes back to the pool.
CommitFails ==
    /\ file' = dbFile /\ sample' = dbSample /\ found' = cFound
    /\ UNCHANGED <<dbFile, dbSample, cFound>>

\* Mutant: a full batch is not committed, the transaction goes on.
WriterCommitSkipped(out) ==
    /\ pcWriter = "commit"
    /\ out = "ok"
    /\ pcWriter' = "recv"
    /\ UNCHANGED <<store, wg, dying, failure, commits>>
    /\ UNCHANGED <<env, runs, args, argi, pcMain, todo, job, chan, cur, i>>
    /\ UNCHANGED <<scanHist, handed, finalDone, evicted>>
    /\ UNCHANGED query


\* A full batch: tx.Commit(); fatal; tx, err = fdb.db.Begin(); fatal.
WriterCommit(out) ==
    /\ pcWriter = "commit"
    /\ CASE out = "ok" ->
              /\ CommitOk
              /\ commits' = commits + 1
              /\ pcWriter' = "recv"
              /\ UNCHANGED <<txOpen, wg, dying, failure>>
         [] out = "beginFails" ->
              /\ CommitOk
              /\ commits' = commits + 1
              /\ txOpen' = FALSE
              /\ WriterPanics("io")
         [] out = "commitFails" ->
              /\ CommitFails
              /\ txOpen' = FALSE
              /\ WriterPanics("io")
              /\ UNCHANGED commits
    /\ UNCHANGED <<env, runs, args, argi, pcMain, todo, job, chan, cur, i>>
    /\ UNCHANGED <<scanHist, handed, finalDone, evicted>>
    /\ UNCHANGED query

\* Mutant: the writer returns without the final tx.Commit().
WriterFinalNoCommit(ok) ==
    /\ pcWriter = "recv" /\ chan = "closed"
    /\ txOpen' = FALSE
    /\ CommitFails
    /\ finalDone' = TRUE
    /\ pcWriter' = "done"
    /\ wg' = wg - 1
    /\ UNCHANGED <<dying, failure>>
    /\ UNCHANGED <<env, runs, args, argi, pcMain, todo, job, chan, cur, i>>
    /\ UNCHANGED <<scanHist, handed, commits, evicted>>
    /\ UNCHANGED query

\* The channel is closed and empty: the range loop ends; the final
\* tx.Commit(); fatal; and, returning, the deferred wg.Done().
WriterFinal(ok) ==
    /\ pcWriter = "recv" /\ chan = "closed"
    /\ txOpen' = FALSE
    /\ IF ok
       THEN /\ CommitOk
            /\ finalDone' = TRUE
            /\ pcWriter' = "done"
            /\ wg' = wg - 1
            /\ UNCHANGED <<dying, failure>>
       ELSE /\ CommitFails
            /\ WriterPanics("io")
            /\ UNCHANGED finalDone
    /\ UNCHANGED <<env, runs, args, argi, pcMain, todo, job, chan, cur, i>>
    /\ UNCHANGED <<scanHist, handed, commits, evicted>>
    /\ UNCHANGED query

\* -------------------------------------------------------------- eviction
\* scanDir after fdb.wg.Wait() has returned: the DELETE on the pooled
\* connection, in autocommit; fatal(err) panics in main when it fails.
Evict(ok) ==
    /\ pcMain = "wait" /\ wg = 0
    /\ ~txOpen
    /\ IF ok
       THEN /\ file' = evictFile(file, found)
            /\ sample' = cascade(sample, file')
            /\ dbFile' = file' /\ dbSample' = sample'
            /\ evicted' = TRUE
            /\ pcMain' = "loop" /\ argi' = argi + 1
            /\ UNCHANGED <<found, cFound, txOpen, failure>>
            /\ UNCHANGED <<runs, args, todo, job, chan, wg, pcWriter, cur, i, dying>>
       ELSE /\ UNCHANGED <<dbFile, dbSample, evicted, runs>>
            /\ failure' = IF failure = "none" THEN "evict" ELSE failure
            /\ ProcessGone("dead")
    /\ UNCHANGED <<env, scanHist, handed, commits, finalDone>>
    /\ UNCHANGED query

\* The same statement while the transaction of a panicked writer still
\* holds the connection: database/sql opens a second connection, which has
\* no temporary table found; the DELETE fails and fatal panics in main.
EvictNoTable ==
    /\ pcMain = "wait" /\ wg = 0
    /\ txOpen
    /\ ProcessGone("dead")
    /\ UNCHANGED <<env, dbFile, dbSample, runs, hist>>
    /\ UNCHANGED query

\* main returns after the last root: the deferred cache.close().
MainFinish ==
    /\ pcMain = "loop"
    /\ argi > Len(args)
    /\ ProcessGone("exited")
    /\ UNCHANGED <<env, dbFile, dbSample, runs, hist>>
    /\ UNCHANGED query

\* The panic of the writer ends the program.
Crash ==
    /\ dying
    /\ ProcessGone("dead")
    /\ UNCHANGED <<env, dbFile, dbSample, runs, hist>>
    /\ UNCHANGED query

\* The process is killed from outside.
Kill ==
    /\ Alive /\ ~dying
    /\ failure' = IF failure = "none" THEN "killed" ELSE failure
    /\ ProcessGone("dead")
    /\ UNCHANGED <<env, dbFile, dbSample, runs>>
    /\ UNCHANGED <<scanHist, handed, commits, finalDone, evicted>>
    /\ UNCHANGED query

\* ----------------------------------------------------------- environment
\* The clock is read by the walk callback alone (time.Now()), so a second
\* passing at any other moment is the same as its passing right before
\* the next record is stamped.
Tick ==
    /\ now < MaxTime
    /\ pcMain = "walk" /\ todo # <<>> /\ disk[Head(todo)].present
    /\ now' = now + 1
    /\ UNCHANGED <<disk, diskOps, walkErrors, store, proc, hist>>
    /\ UNCHANGED query

\* The file system is read by the walks alone, so a change made while no
\* walk is under way is the same as one made right before the next walk.
Quiet == pcMain = "loop" /\ argi <= Len(args) /\ ~dying

DiskRemove(p) ==
    /\ Quiet
    /\ diskOps < MaxDiskOps
    /\ disk[p].present
    /\ disk' = [disk EXCEPT ![p] = Absent]
    /\ diskOps' = diskOps + 1
    /\ UNCHANGED <<now, walkErrors, store, proc, hist>>
    /\ UNCHANGED query

DiskWrite(p, st) ==
    /\ Quiet
    /\ diskOps < MaxDiskOps
    /\ disk[p] # st
    /\ disk' = [disk EXCEPT ![p] = st]
    /\ diskOps' = diskOps + 1
    /\ UNCHANGED <<now, walkErrors, store, proc, hist>>
    /\ UNCHANGED query

\* ------------------------------------------------------------------ spec
Next ==
    \/ \E argv \in ArgLists : StartRun(argv)
    \/ ScanStart
    \/ WalkVisit
    \/ WalkSkipAbsent
    \/ WalkError
    \/ Handoff
    \/ WalkEnd
    \/ \E ok \in BOOLEAN : WriterBegin(ok)
    \/ \E io \in Stmts \cup {"none"} : WriterInsert(io)
    \/ \E out \in {"ok", "beginFails", "commitFails"} : WriterCommit(out)
    \/ \E ok \in BOOLEAN : WriterFinal(ok)
    \/ \E ok \in BOOLEAN : Evict(ok)
    \/ EvictNoTable
    \/ MainFinish
    \/ Crash
    \/ Kill
    \/ Tick
    \/ \E p \in Removable : DiskRemove(p)
    \/ \E p \in Writable, st \in Writes : DiskWrite(p, st)

Spec == Init /\ [][Next]_vars

\* ------------------------------------------------------------ properties
PathOfId(fl, id) == (CHOOSE f \in fl : f.fileid = id).path

\* The samples of a store, each with the path of its file.
Rows(fl, sm) ==
    {[path |-> PathOfId(fl, s.fileid), sampletime |-> s.sampletime,
      mode |-> s.mode, size |-> s.size, mtime |-> s.mtime] : s \in sm}

\* The samples that the first n records handed to the writer call for.
JobRows(n) ==
    {[path |-> handed[k].p, sampletime |-> handed[k].now,
      mode |-> handed[k].mode, size |-> handed[k].size,
      mtime |-> handed[k].mtime] : k \in 1..n}

PathsOf(fl) == {f.path : f \in fl}
HandedPaths == {handed[k].p : k \in 1..Len(handed)}
SamplesOf(sm, id) == {s \in sm : s.fileid = id}

\* A scan that walked a tree (its root resolved).
Walked == scanRoot \notin {"", NoRoot}
\* The writer failed on a store write in this scan.
WriterFailed == failure \in {"io", "dupSample", "dupFound"}
\* The state in which scanDir has just returned.
ScanReturned == evicted /\ pcMain = "loop" /\ ~dying /\ failure = "none"

\* C1: in a scan that walks a tree, the eviction DELETE takes effect only
\* when the walk is over, the channel is closed and empty, nothing is left
\* with the writer, and the writer has committed its final batch and has
\* no transaction open.
C1_EvictionOnlyAfterBarrier ==
    [][(Walked /\ ~evicted /\ evicted') =>
        /\ todo = <<>> /\ chan = "closed"
        /\ job = NoJob /\ cur = NoJob
        /\ finalDone /\ ~txOpen]_vars

\* C5: when a store write of the writer fails, the eviction DELETE of that
\* scan is not executed, and the records of the batches committed before
\* the error are in the store.
C5_NoEvictionAfterWriteError ==
    WriterFailed =>
        /\ ~evicted
        /\ commits * filesPerBatch <= Len(handed)
        /\ JobRows(commits * filesPerBatch) \subseteq Rows(dbFile, dbSample)

\* C2: after a scan of a root has returned, a file of that root that was in
\* the store before the scan and was not on disk during it is gone with
\* all its samples; and after a scan that was aborted before its eviction,
\* every file that was in the store before it is still there with the
\* samples it had.
C2_EvictionCorrectness ==
    /\ (ScanReturned /\ Walked /\ diskOps = scanOps) =>
          \A f \in preFile :
              (f.path \in Under(scanRoot) /\ ~disk[f.path].present) =>
                  /\ f \notin dbFile
                  /\ SamplesOf(dbSample, f.fileid) = {}
    /\ (failure # "none" /\ ~evicted) =>
          \A f \in preFile :
              /\ f \in dbFile
              /\ SamplesOf(preSample, f.fileid) \subseteq dbSample

\* C3: a scan whose root does not resolve leaves the store as it was.
C3_UnresolvedRootEvictsNothing ==
    scanRoot = NoRoot => (dbFile = preFile /\ dbSample = preSample)

\* The roots scanned in this run before the scan that has just returned.
EarlierRoots == {Canon(args[k]) : k \in 1..(argi - 2)}

\* C4: after the scan of a root has returned, a file recorded under another
\* root, one not scanned in this run, is still in the store with its
\* samples.
C4_EvictionScopedToRoot ==
    (ScanReturned /\ Walked) =>
        \A f \in preFile :
            (/\ f.path \notin Under(scanRoot)
             /\ \A r \in EarlierRoots : f.path \notin Under(r)) =>
                /\ f \in dbFile
                /\ SamplesOf(preSample, f.fileid) \subseteq dbSample

\* A second scan of the root of the scan before it, which ran to its end;
\* the tree has not changed since that scan began, the walk skipped no
\* entry, and every record is stamped in a later second.
Rescan ==
    /\ Walked /\ prev.ok /\ prev.root = scanRoot
    /\ prev.ops = diskOps /\ walkErrors = scanWerr
    /\ \A k \in 1..Len(handed) : handed[k].now > prev.tmax

\* C8: such a second scan does not die on a constraint of the store, and
\* when it has returned the file rows are those from before (none added,
\* none evicted) and every file of the tree has exactly one new sample,
\* with a size and mtime it was sampled with before.
C8_RescanIdempotent ==
    Rescan =>
        /\ failure \notin {"dupSample", "dupFound"}
        /\ ScanReturned =>
              /\ dbFile = preFile
              /\ \A f \in dbFile :
                    f.path \in Under(scanRoot) =>
                        LET new == SamplesOf(dbSample, f.fileid) \ preSample
                        IN  /\ Cardinality(new) = 1
                            /\ \A s \in new :
                                  \E o \in SamplesOf(preSample, f.fileid) :
                                      o.size = s.size /\ o.mtime = s.mtime

\* C9: when scanDir is called, found is empty.
C9_SeenSetEmptyAtScanStart ==
    (pcMain = "loop" /\ argi <= Len(args) /\ ~dying) => found = {}

\* C10: insertOneSample on a file whose identifier is already in found
\* does not fail on markFound, and when it succeeds found is as before.
C10_MarkSeenIdempotent ==
    [][(pcWriter = "insert" /\ getFileID(file, cur.p) \in found
            /\ pcWriter' # "insert") =>
          /\ failure' # "dupFound"
          /\ pcWriter' \in {"recv", "commit"} => found' = found]_vars

\* C6: while a scan has not yet committed its final batch (and so whenever
\* the process is killed there), what is durable is exactly what the store
\* held before the scan plus the files and samples of the records of the
\* batches committed so far, commits * filesPerBatch of them.
C6_BatchBoundaryDurability ==
    (Walked /\ ~evicted /\ ~finalDone) =>
        /\ commits * filesPerBatch <= Len(handed)
        /\ preFile \subseteq dbFile /\ preSample \subseteq dbSample
        /\ PathsOf(dbFile) = PathsOf(preFile) \cup
               {handed[k].p : k \in 1..(commits * filesPerBatch)}
        /\ Rows(dbFile, dbSample) =
               Rows(preFile, preSample) \cup JobRows(commits * filesPerBatch)

\* Killed with one batch or more committed and a row of the next batch
\* inserted in the open transaction.
C6_Witness ==
    /\ pcMain = "dead" /\ failure = "killed"
    /\ Walked /\ ~evicted /\ ~finalDone
    /\ commits >= 1 /\ i > commits * filesPerBatch
    /\ file = dbFile /\ sample = dbSample

\* C7: when the writer has returned without an error, nothing is left on
\* the channel or with the writer, no transaction is open, and the sample
\* of every record the walker handed over is durable.
C7_AllRecordsCommitted ==
    pcWriter = "done" =>
        /\ job = NoJob /\ cur = NoJob /\ ~txOpen
        /\ i = Len(handed)
        /\ JobRows(Len(handed)) \subseteq Rows(dbFile, dbSample)

\* The writer has returned after a full batch and a partial one.
C7_Witness ==
    /\ pcWriter = "done"
    /\ Len(handed) > filesPerBatch
    /\ Len(handed) % filesPerBatch # 0

\* The regular files on disk under the root of the scan.
OnDisk == {p \in Under(scanRoot) : disk[p].present}

\* C11: an error the walk reports for an entry does not end the scan: when
\* the scan has returned, every other file of the tree was handed to the
\* writer, has the sample it was handed over with in the store, and is in
\* found.
C11_WalkErrorSkipsOneEntry ==
    (ScanReturned /\ Walked /\ diskOps = scanOps) =>
        /\ HandedPaths = OnDisk \ skipped
        /\ JobRows(Len(handed)) \subseteq Rows(dbFile, dbSample)
        /\ \A p \in OnDisk \ skipped : getFileID(dbFile, p) \in found

\* A scan of three files has returned; the walk reported an error for the
\* second and the other two are recorded.
C11_Witness ==
    /\ ScanReturned /\ Walked /\ diskOps = scanOps
    /\ Cardinality(OnDisk) = 3
    /\ Cardinality(skipped) = 1
    /\ Len(handed) = 2

\* C12: a root that does not resolve does not end the run.  Unless the
\* program is already ending on a store failure of an earlier scan, the
\* scan of such a root ends with main back in its loop at the next argument
\* (or with the process killed, or with the DELETE failing in the store); main
\* takes the arguments in order, one scanDir each, and returns only after
\* the last; and the process dies only of a store failure or a kill.
C12_FailedRootDoesNotStopRun ==
    [][/\ (pcMain = "wait" /\ scanRoot = NoRoot /\ ~dying /\ pcMain' # "wait") =>
             \/ failure' \in {"killed", "evict"}
             \/ /\ pcMain' = "loop" /\ args' = args /\ argi' = argi + 1
                /\ failure' = "none" /\ ~dying'
       /\ (pcMain = "loop" /\ pcMain' \in {"walk", "wait"}) =>
             scanRoot' = Canon(args[argi])
       /\ (argi >= 1 /\ argi' > argi) => (argi' = argi + 1 /\ evicted')
       /\ (pcMain # "exited" /\ pcMain' = "exited") => argi = Len(args) + 1
       /\ (pcMain # "dead" /\ pcMain' = "dead") => failure' # "none"]_vars

\* The first root of the command line did not resolve, and the scan of the
\* second has walked its tree, committed and evicted.
C12_Witness ==
    /\ ScanReturned /\ Walked /\ finalDone
    /\ Len(args) = 2 /\ argi = 3
    /\ Canon(args[1]) = NoRoot
    /\ Len(handed) >= 1

\* The sample rows of a file at a capture time.
SamplesAt(sm, id, t) == {s \in sm : s.fileid = id /\ s.sampletime = t}

\* The writer is about to insert a sample whose key (fileid, sampletime) is
\* in the store already.
KeyCollision ==
    /\ pcWriter = "insert"
    /\ getFileID(file, cur.p) # 0
    /\ SampleKeyTaken(sample, getFileID(file, cur.p), cur.now)

\* C13: an insert of a sample whose key is taken is not accepted: the
\* writer does not go on to the next record, the scan ends in a fatal error
\* (or the process is killed first), and the row that has the key stays
\* the only one, durable and as it was.
C13_DuplicateSampleIsFatal ==
    [][(KeyCollision /\ pcWriter' # "insert") =>
          /\ pcWriter' \notin {"recv", "commit", "done"}
          /\ failure' \in {"dupSample", "io", "killed"}
          /\ LET id == getFileID(file, cur.p)
             IN  /\ SamplesAt(sample', id, cur.now) = SamplesAt(sample, id, cur.now)
                 /\ SamplesAt(dbSample', id, cur.now) = SamplesAt(sample, id, cur.now)
                 /\ Cardinality(SamplesAt(sample, id, cur.now)) = 1]_vars

\* The scan died on the key of a sample taken in the same second, of a file
\* that was written to in between: the store has the sample of before.
C13_Witness ==
    /\ failure = "dupSample" /\ pcWriter = "panicked"
    /\ handed # <<>>
    /\ LET j == handed[Len(handed)]
       IN  \E s \in SamplesAt(dbSample, getFileID(dbFile, j.p), j.now) :
               s.size # j.size /\ s.mode # j.mode /\ s.mtime # j.mtime

\* --------------------------------------------------------------- reports
\* The reports of main (-biggest, -oldest, -newest, -fastest) read the store
\* that the runs before have left.  They are checked on stores drawn from
\* bounded sets: file identifiers 1..MaxFiles, capture times 0..MaxWhen, at
\* most MaxSamples samples in all, and -list from 0..MaxList.
MaxFiles == 3
MaxWhen == 2
MaxSamples == 4
MaxList == 3

\* What a sampled file looked like.
Looks == {Stat(1, 2), Stat(2, 3), [Stat(4, 1) EXCEPT !.mode = ModePrivate]}

\* The store as the scans leave it: one file row per path and identifier,
\* every sample the sample of a file row, every file row with a sample.
StoreOk(fl, sm) ==
    /\ \A f, g \in fl : (f.fileid = g.fileid \/ f.path = g.path) => f = g
    /\ \A s, t \in sm : (s.fileid = t.fileid /\ s.sampletime = t.sampletime) => s = t
    /\ \A s \in sm : \E f \in fl : f.fileid = s.fileid
    /\ \A f \in fl : \E s \in sm : s.fileid = f.fileid

QPath(id) == "/Q/f" \o ToString(id)
SampleKeys == (1..MaxFiles) \X (0..MaxWhen)

Min(S) == CHOOSE x \in S : \A y \in S : x <= y

\* A row of a result set: the columns path, sampletime, mode, size, mtime
\* and rate (NULL in the three rankings, which do not select it).
Null == [null |-> TRUE, val |-> 0]
Val(v) == [null |-> FALSE, val |-> v]
ResultRow(f, s, r) ==
    [path |-> f.path, sampletime |-> s.sampletime, mode |-> s.mode,
     size |-> s.size, mtime |-> s.mtime, rate |-> r]

\* from file, sample where file.fileid=sample.fileid and sample.sampletime =
\* (select max(sampletime) from sample where file.fileid=sample.fileid)
LatestRows(fl, sm) ==
    {ResultRow(fs[1], fs[2], Null) :
        fs \in {x \in fl \X sm :
                  /\ x[1].fileid = x[2].fileid
                  /\ x[2].sampletime =
                       Max({t.sampletime : t \in SamplesOf(sm, x[1].fileid)})}}

\* The order by clauses: may row a come before row b?  (order by rate
\* DESC: SQLite sorts NULL as the smallest value.)
SizeDesc(a, b) == a.size >= b.size
MtimeAsc(a, b) == a.mtime <= b.mtime
MtimeDesc(a, b) == a.mtime >= b.mtime
RateDesc(a, b) ==
    IF a.rate.null THEN b.rate.null
    ELSE b.rate.null \/ a.rate.val >= b.rate.val

Before(order, a, b) ==
    CASE order = "size DESC" -> SizeDesc(a, b)
      [] order = "mtime ASC" -> MtimeAsc(a, b)
      [] order = "mtime DESC" -> MtimeDesc(a, b)
      [] order = "rate DESC" -> RateDesc(a, b)

\* order by: every order of the rows that the sort key allows (rows with
\* equal keys come in any order).
OrderBy(rows, order) ==
    {q \in [1..Cardinality(rows) -> rows] :
        /\ \A a, b \in 1..Cardinality(rows) : a # b => q[a] # q[b]
        /\ \A a, b \in 1..Cardinality(rows) : a < b => Before(order, q[a], q[b])}

\* LIMIT ?
Limit(q, n) == SubSeq(q, 1, IF n < Len(q) THEN n ELSE Len(q))

\* fileEnt.Scan and the Scan of getFastest: a NULL rate cannot be converted
\* to float64, the error is dropped and rate keeps its zero value.
fileEnt(row) ==
    [path |-> row.path, when |-> row.sampletime, mode |-> row.mode,
     size |-> row.size, mtime |-> row.mtime,
     rate |-> IF row.rate.null THEN 0 ELSE row.rate.val]

\* for r.Next() && i < n { result[i].Scan(r); i++ }; return result[0:i]
RECURSIVE rowsLoop(_, _, _)
rowsLoop(r, n, acc) ==
    IF r # <<>> /\ Len(acc) < n
    THEN rowsLoop(Tail(r), n, Append(acc, fileEnt(Head(r))))
    ELSE acc

rowsToResults(r, n) == rowsLoop(r, n, <<>>)

\* Mutant: the ranking by size takes each file's first sample.
EarliestRows(fl, sm) ==
    {ResultRow(fs[1], fs[2], Null) :
        fs \in {x \in fl \X sm :
                  /\ x[1].fileid = x[2].fileid
                  /\ x[2].sampletime =
                       Min({t.sampletime : t \in SamplesOf(sm, x[1].fileid)})}}

getBiggestOfEarliest(fl, sm, n) ==
    {rowsToResults(Limit(q, n), n) : q \in OrderBy(EarliestRows(fl, sm), "size DESC")}

\* The results the store may give to each ranking.
getBiggest(fl, sm, n) ==
    {rowsToResults(Limit(q, n), n) : q \in OrderBy(LatestRows(fl, sm), "size DESC")}

getOldest(fl, sm, n) ==
    {rowsToResults(Limit(q, n), n) : q \in OrderBy(LatestRows(fl, sm), "mtime ASC")}

getNewest(fl, sm, n) ==
    {rowsToResults(Limit(q, n), n) : q \in OrderBy(LatestRows(fl, sm), "mtime DESC")}

\* getFastest: group by sample.fileid.  rate is integer arithmetic on the
\* aggregates, and NULL when the group has one capture time (division by
\* zero).
Rate(S) ==
    LET ts == {s.sampletime : s \in S}
        zs == {s.size : s \in S}
    IN  IF Max(ts) = Min(ts) THEN Null
        ELSE Val((Max(zs) - Min(zs)) \div (Max(ts) - Min(ts)))

\* The columns sampletime, mode, size, mtime of the grouped query are bare
\* columns beside four min()/max() aggregates: SQLite takes them from a row
\* on which one of the aggregates has its minimum or maximum, and which one
\* is not specified.
BareRows(S) ==
    LET ts == {s.sampletime : s \in S}
        zs == {s.size : s \in S}
    IN  {s \in S : \/ s.sampletime \in {Max(ts), Min(ts)}
                   \/ s.size \in {Max(zs), Min(zs)}}

GroupedRows(fl, sm) ==
    LET grouped == {f \in fl : SamplesOf(sm, f.fileid) # {}}
    IN  {{ResultRow(f, pick[f], Rate(SamplesOf(sm, f.fileid))) : f \in grouped} :
            pick \in {g \in [grouped -> sm] :
                        \A f \in grouped : g[f] \in BareRows(SamplesOf(sm, f.fileid))}}

getFastest(fl, sm, n) ==
    UNION {{rowsToResults(Limit(q, n), n) : q \in OrderBy(rows, "rate DESC")} :
              rows \in GroupedRows(fl, sm)}

\* A run that is asked for one report of a store drawn from the bounds.
InitQ ==
    /\ now = 0 /\ disk = InitDisk /\ diskOps = 0 /\ walkErrors = 0
    /\ \E ks \in SUBSET SampleKeys :
          /\ Cardinality(ks) <= MaxSamples
          /\ \E look \in [ks -> Looks] :
                /\ dbSample = {[fileid |-> k[1], sampletime |-> k[2],
                                mode |-> look[k].mode, size |-> look[k].size,
                                mtime |-> look[k].mtime] : k \in ks}
                /\ dbFile = {[fileid |-> id, path |-> QPath(id)] :
                                id \in {k[1] : k \in ks}}
    /\ file = dbFile /\ sample = dbSample
    /\ found = {} /\ cFound = {} /\ txOpen = FALSE
    /\ runs = 1 /\ args = <<>> /\ argi = 1 /\ pcMain = "loop"
    /\ todo = <<>> /\ job = NoJob /\ chan = "none" /\ wg = 0
    /\ pcWriter = "none" /\ cur = NoJob /\ i = 0 /\ dying = FALSE
    /\ scanRoot = "" /\ preFile = dbFile /\ preSample = dbSample /\ handed = <<>>
    /\ scanOps = 0 /\ scanWerr = 0 /\ skipped = {} /\ prev = NoScan
    /\ commits = 0 /\ finalDone = FALSE /\ evicted = FALSE /\ failure = "none"
    /\ listSize \in 0..MaxList /\ report = "" /\ result = <<>>

\* main after the loop over the roots: a report prints what its query
\* returns.
Reports(results) ==
    /\ pcMain = "loop" /\ argi > Len(args) /\ ~dying
    /\ report = ""
    /\ result' \in results
    /\ UNCHANGED <<env, store, proc, hist, listSize>>

GetBiggest ==
    /\ report' = "biggest"
    /\ Reports(getBiggest(file, sample, listSize))

GetOldest ==
    /\ report' = "oldest"
    /\ Reports(getOldest(file, sample, listSize))

GetNewest ==
    /\ report' = "newest"
    /\ Reports(getNewest(file, sample, listSize))

GetFastest ==
    /\ report' = "fastest"
    /\ Reports(getFastest(file, sample, listSize))

NextQ ==
    \/ GetBiggest
    \/ GetOldest
    \/ GetNewest
    \/ GetFastest

SpecQ == InitQ /\ [][NextQ]_vars

\* The sample of a file with the latest capture time, and the one with the
\* earliest.
IsLatest(s) == \A t \in sample : t.fileid = s.fileid => t.sampletime <= s.sampletime
IsEarliest(s) == \A t \in sample : t.fileid = s.fileid => s.sampletime <= t.sampletime

\* The entry is the file f with its sample s.
Carries(e, f, s) ==
    /\ f.fileid = s.fileid
    /\ e.path = f.path /\ e.when = s.sampletime
    /\ e.mode = s.mode /\ e.size = s.size /\ e.mtime = s.mtime

Entries == {result[k] : k \in 1..Len(result)}
OnePerFile == \A a, b \in 1..Len(result) : a # b => result[a].path # result[b].path
CarryLatest ==
    \A e \in Entries : \E f \in file, s \in sample : Carries(e, f, s) /\ IsLatest(s)

\* The key a ranking sorts by, largest first: size, -mtime, mtime.
RankKey(e) ==
    CASE report = "biggest" -> e.size
      [] report = "oldest" -> 0 - e.mtime
      [] OTHER -> e.mtime

\* C14: getBiggest, getOldest and getNewest return min(n, number of files)
\* entries, one per file, each with the latest sample of its file, in the
\* order of the ranking; and no file left out ranks before one returned.
C14_LatestSampleRanking ==
    report \in {"biggest", "oldest", "newest"} =>
        /\ Len(result) = IF listSize < Cardinality(file)
                         THEN listSize ELSE Cardinality(file)
        /\ OnePerFile
        /\ CarryLatest
        /\ \A a, b \in 1..Len(result) :
              a < b => RankKey(result[a]) >= RankKey(result[b])
        /\ \A f \in file, s \in sample :
              (/\ f.fileid = s.fileid /\ IsLatest(s)
               /\ \A e \in Entries : e.path # f.path) =>
                  \A e \in Entries :
                      RankKey(e) >= RankKey([size |-> s.size, mtime |-> s.mtime])

\* Three files whose latest samples have the sizes 1, 2 and 4, one of them
\* with an earlier sample too: the two biggest, the biggest first.
C14_Witness ==
    /\ report = "biggest" /\ listSize = 2
    /\ Cardinality(file) = 3 /\ Cardinality(sample) = 4
    /\ Len(result) = 2
    /\ result[1].size = 4 /\ result[2].size = 2
    /\ \E s \in sample : ~IsLatest(s) /\ s.size = 4

\* C15: for a file with samples at two capture times or more, the rate in
\* its entry of getFastest is (size of the latest sample - size of the
\* earliest) / (latest capture time - earliest capture time).
C15_GrowthRate ==
    report = "fastest" =>
        \A e \in Entries, f \in file, lo \in sample, hi \in sample :
            (/\ e.path = f.path
             /\ lo.fileid = f.fileid /\ hi.fileid = f.fileid
             /\ IsEarliest(lo) /\ IsLatest(hi)
             /\ lo.sampletime < hi.sampletime) =>
                e.rate * (hi.sampletime - lo.sampletime) = hi.size - lo.size

\* The files with samples at two capture times or more.
Rated == {f \in file : Cardinality(SamplesOf(sample, f.fileid)) >= 2}

\* C16: getFastest returns at most n entries, one per file, each with the
\* latest sample of its file, the files with a rate first and in descending
\* order of rate, the files with one sample after them.
C16_FastestRanking ==
    report = "fastest" =>
        /\ Len(result) <= listSize
        /\ OnePerFile
        /\ CarryLatest
        /\ \A a, b \in 1..Len(result) :
              a < b =>
                 LET ra == \E f \in Rated : f.path = result[a].path
                     rb == \E f \in Rated : f.path = result[b].path
                 IN  /\ rb => ra
                     /\ (ra /\ rb) => result[a].rate >= result[b].rate

OnePerPath(fl) == \A f, g \in fl : f.path = g.path => f = g

\* C17: the store holds one file row per path at most, in the view of the
\* open transaction as in what is durable; and on every view the program
\* reaches, insertOneSample adds no file row for a path that has one (the
\* row may be uncommitted), adds exactly one for a path that has none, and
\* a second call for the same path adds none.
C17_OneFileRowPerPath ==
    /\ OnePerPath(file) /\ OnePerPath(dbFile)
    /\ StoreOk(dbFile, dbSample)
    /\ \A p \in Paths :
          LET r == insertOneSample(file, sample, {}, Job(p, disk[p], MaxTime + 1), "none")
              again == insertOneSample(r.file, r.sample, {}, Job(p, disk[p], MaxTime + 2), "none")
          IN  /\ r.err = "ok" /\ again.err = "ok"
              /\ IF getFileID(file, p) # 0
                 THEN r.file = file
                 ELSE /\ Cardinality(r.file) = Cardinality(file) + 1
                      /\ file \subseteq r.file
              /\ Cardinality({f \in r.file : f.path = p}) = 1
              /\ again.file = r.file

\* In a later run the writer has inserted the sample of a file that the
\* store knew: the file rows are those from before the scan, and the file
\* has two samples.
C17_Witness ==
    /\ runs = 2 /\ pcWriter = "recv" /\ i = 1
    /\ preFile # {} /\ file = preFile
    /\ Cardinality(SamplesOf(sample, getFileID(file, handed[1].p))) = 2

\* Records in flight: the rows of the open transaction that are not yet
\* durable, the record the writer has received and not yet inserted, and
\* the record the walker holds at its send.
Uncommitted == Cardinality(sample \ dbSample)
Held == IF cur.some THEN 1 ELSE 0
Waiting == IF job.some THEN 1 ELSE 0

\* C18: the open transaction never holds more than filesPerBatch records,
\* the records in flight are never more than filesPerBatch + 1, and a
\* record passes the channel only while the writer is at its receive, not
\* while it inserts or commits.
C18_InFlightBound ==
    [][/\ Uncommitted <= filesPerBatch
       /\ Cardinality(file \ dbFile) <= filesPerBatch
       /\ Uncommitted + Held + Waiting <= filesPerBatch + 1
       /\ (handed' # handed /\ handed' # <<>>) =>
             (pcWriter = "recv" /\ Held = 0 /\ Uncommitted < filesPerBatch)]_vars

\* A full batch is in the open transaction, the writer is about to commit
\* it, and the walker waits at its send with the next record.
C18_Witness ==
    /\ pcWriter = "commit" /\ pcMain = "send"
    /\ Uncommitted = filesPerBatch /\ Waiting = 1

\* ---------------------------------------------------------------- liveness
\* The Go scheduler runs every goroutine that can run: the walker (the main
\* goroutine) and the writer take their next step, the channel operation
\* happens when both sides are at it, a call into the store returns (with or
\* without an error), and a panic ends the program.
Fairness ==
    /\ WF_vars(ScanStart)
    /\ WF_vars(WalkVisit \/ WalkSkipAbsent \/ WalkError)
    /\ WF_vars(Handoff)
    /\ WF_vars(WalkEnd)
    /\ WF_vars(\E ok \in BOOLEAN : WriterBegin(ok))
    /\ WF_vars(\E io \in Stmts \cup {"none"} : WriterInsert(io))
    /\ WF_vars(\E out \in {"ok", "beginFails", "commitFails"} : WriterCommit(out))
    /\ WF_vars(\E ok \in BOOLEAN : WriterFinal(ok))
    /\ WF_vars((\E ok \in BOOLEAN : Evict(ok)) \/ EvictNoTable)
    /\ WF_vars(MainFinish)
    /\ WF_vars(Crash)

FairSpec == Init /\ [][Next]_vars /\ Fairness

\* scanDir has been called and has not returned.
Scanning == pcMain \in {"walk", "send", "wait"}

\* C19: under fair scheduling a scan that has started ends, with its
\* eviction executed or in a failure (a fatal error of the store, or the
\* process killed); the walker does not stay at its send for ever; and the
\* channel is closed once, when the walker holds no record and has nothing
\* left to walk, with no record passing it afterwards.
C19_ScanTerminates ==
    /\ Scanning ~> (evicted \/ failure # "none")
    /\ (pcMain = "send") ~> (pcMain # "send")
    /\ [][/\ (chan # "closed" /\ chan' = "closed") =>
                (chan = "open" /\ todo = <<>> /\ job = NoJob)
          /\ chan = "closed" =>
                (chan' \in {"closed", "none"} \/ pcMain = "loop")
          /\ (chan = "closed" /\ handed' # handed) => handed' = <<>>]_vars

\* A scan of three files has ended with its eviction: all three passed the
\* channel, the channel is closed, and walker and writer are done.
C19_Witness ==
    /\ ScanReturned /\ Walked /\ finalDone
    /\ Len(handed) = 3
    /\ chan = "closed" /\ pcWriter = "done" /\ wg = 0

\* C20: there is one writer at most and the open transaction is its own;
\* and the walk of a further root of the run starts only when the scan of
\* the root before has executed its eviction and, if it walked a tree, its
\* writer has committed its final batch.
C20_SequentialScans ==
    [][/\ wg <= 1
       /\ txOpen => (wg = 1 \/ pcWriter = "panicked")
       /\ (pcMain = "loop" /\ pcMain' = "walk" /\ argi > 1) =>
             /\ evicted /\ ~txOpen /\ wg = 0
             /\ Walked => (finalDone /\ pcWriter = "done")]_vars

\* C21: the eviction knows nothing of walk errors: when a scan has
\* returned, a file that was in the store before it, is still on disk, and
\* was skipped because the walk reported an error for it, is gone with all
\* its samples.
C21_SkippedFileEvicted ==
    (ScanReturned /\ Walked /\ diskOps = scanOps) =>
        \A f \in preFile :
            (f.path \in skipped /\ disk[f.path].present) =>
                /\ f \notin dbFile
                /\ SamplesOf(dbSample, f.fileid) = {}

====
